---- MODULE Spec2Model ----
(***************************************************************************)
(* Model of the LS-8 style virtual machine of src/cpu.py: class CPU with   *)
(* its memory, registers, program counter and flags, the run loop and one  *)
(* action per instruction handler.  Python semantics that the code relies  *)
(* on are modelled as they behave: list indexing (negative indices wrap,   *)
(* indices outside -len..len-1 raise IndexError), unbounded integers, true *)
(* division producing a float, and uncaught exceptions ending the run.     *)
(***************************************************************************)
EXTENDS Integers, Sequences, FiniteSets, TLC

VARIABLES ram, reg, pc, fl, status, exitcode, out, floatreg, acc, hist, lastcmp, call, steps

vars == <<ram, reg, pc, fl, status, exitcode, out, floatreg, acc, hist, lastcmp, call, steps>>

(* ------------------------------------------------------------------ *)
(* Opcode constants, src/cpu.py lines 5-39                             *)
(* ------------------------------------------------------------------ *)
HLT == 1
LDI == 130
PRN == 71
ADD == 160
SUB == 161
MUL == 162
DIV == 163
AND == 168
CMP == 167
DEC == 102
INC == 101
MOD == 164
NOT == 105
OR == 170
SHL == 172
SHR == 173
XOR == 171
PUSH == 69
POP == 70
CALL == 80
RET == 17
ST == 132
JMP == 84
JEQ == 85
JGE == 90
JGT == 87
JLE == 89
JLT == 88
JNE == 86
LD == 131
NOP == 0
PRA == 72
INT == 82
IRET == 19
ADDI == 174

\* size of self.ram and of self.reg, the stack pointer's register and reset value
RamSize == 256
NumRegs == 8
SP == 7
SPInit == 244

\* the keys of self.branchtable
branchtable ==
    {HLT, LDI, PRN, ADD, SUB, MUL, DIV, AND, CMP, DEC, INC, MOD, NOT, OR, SHL,
     SHR, XOR, PUSH, POP, CALL, RET, ST, JMP, JEQ, JGE, JGT, JLE, JLT, JNE, LD,
     NOP, PRA, INT, IRET, ADDI}

(* ------------------------------------------------------------------ *)
(* Python primitives used by the code                                  *)
(* ------------------------------------------------------------------ *)
\* list[i] on a list of length n: valid for -n <= i < n, negative i counts from the end
IdxOK(i, n) == (-n <= i) /\ (i < n)
Idx(i, n) == IF i < 0 THEN i + n ELSE i

\* variant: the result is stored without the mask
Mask8_Unmasked(x) == x

\* x & 0xFF on a Python int (two's complement, any sign)
Mask8(x) == x % 256

Pow2(k) == 2 ^ k
Bit(x, k) == (x \div Pow2(k)) % 2

\* x & y, x | y, x ^ y restricted to the low 8 bits (the only bits the mask keeps)
And8(x, y) ==
    LET b(k) == Bit(Mask8(x), k) * Bit(Mask8(y), k)
    IN b(0) + 2*b(1) + 4*b(2) + 8*b(3) + 16*b(4) + 32*b(5) + 64*b(6) + 128*b(7)
Or8(x, y) ==
    LET b(k) == IF Bit(Mask8(x), k) + Bit(Mask8(y), k) > 0 THEN 1 ELSE 0
    IN b(0) + 2*b(1) + 4*b(2) + 8*b(3) + 16*b(4) + 32*b(5) + 64*b(6) + 128*b(7)
Xor8(x, y) ==
    LET b(k) == (Bit(Mask8(x), k) + Bit(Mask8(y), k)) % 2
    IN b(0) + 2*b(1) + 4*b(2) + 8*b(3) + 16*b(4) + 32*b(5) + 64*b(6) + 128*b(7)
\* (~x) & 0xFF
Not8(x) == Mask8(-x - 1)
\* (x << y) & 0xFF for y >= 0
Shl8(x, y) == IF y >= 8 THEN 0 ELSE Mask8(Mask8(x) * Pow2(y))
\* (x >> y) & 0xFF for y >= 0: floor division by 2^y
Shr8(x, y) == IF y >= 30 THEN (IF x < 0 THEN 255 ELSE 0) ELSE Mask8(x \div Pow2(y))
\* x % y of Python for y # 0: the result takes the sign of the divisor
PyMod(x, y) == IF y > 0 THEN x % y ELSE -((-x) % (-y))
\* chr(val) is defined for 0 <= val < 0x110000
ChrOK(val) == (0 <= val) /\ (val < 1114112)

\* decoding of the opcode byte as run() does it
IsAlu(op) == (op \div 32) % 2 # 0
SetsPC(op) == (op \div 16) % 2 # 0
NumOperands(op) == op \div 64


(* ------------------------------------------------------------------ *)
(* Bounds and the memory images the runs start from                    *)
(* ------------------------------------------------------------------ *)
\* run() loops for ever on some images; a run is followed for at most MaxSteps instructions
MaxSteps == 8

\* exitcode while the process is still running
NoExit == -1

\* byte values loaded into R0 and R1 by the first two instructions of an image
Vals == {0, 2, 5, 255}

\* the code fragments the third slot of an image is drawn from
Setup ==
    {<<NOP>>, <<LDI, 7, 0>>, <<LDI, 7, 255>>, <<LDI, 2, 254>>, <<LDI, 2, 255>>,
     <<CMP, 0, 1>>, <<PUSH, 0>>, <<PUSH, 7>>, <<ADD, 0, 1>>, <<MUL, 0, 1>>,
     <<CALL, 2>>, <<LDI, 7, 0, PUSH, 0>>, <<LDI, 7, 13, PUSH, 0>>,
     <<LDI, 2, 11, CALL, 2>>, <<ADD, 0, 0>>}

\* the instructions the fourth slot of an image is drawn from
Pool ==
    {<<ADD, 0, 1>>, <<SUB, 0, 1>>, <<MUL, 0, 1>>, <<DIV, 0, 1>>, <<DIV, 0, 0>>,
     <<MOD, 0, 1>>, <<MOD, 0, 0>>, <<AND, 0, 1>>, <<OR, 0, 1>>, <<XOR, 0, 1>>,
     <<SHL, 0, 1>>, <<SHR, 0, 1>>, <<SHL, 0, 7>>, <<CMP, 0, 1>>, <<CMP, 7, 0>>,
     <<ADDI, 0, 200>>, <<ADD, 0, 9>>,
     <<NOT, 0>>, <<INC, 0>>, <<DEC, 0>>,
     <<LDI, 7, 0>>, <<LDI, 7, 255>>, <<LDI, 2, 254>>, <<LDI, 2, 255>>, <<LDI, 8, 1>>,
     <<PUSH, 0>>, <<PUSH, 7>>, <<POP, 1>>, <<POP, 7>>, <<PUSH, 8>>,
     <<CALL, 2>>, <<RET>>, <<ST, 2, 0>>, <<LD, 0, 2>>, <<LD, 0, 7>>,
     <<JMP, 2>>, <<JMP, 7>>, <<JEQ, 2>>, <<JNE, 2>>, <<JGT, 2>>, <<JGE, 2>>,
     <<JLT, 2>>, <<JLE, 2>>,
     <<NOP>>, <<PRN, 0>>, <<PRA, 0>>, <<PRA, 7>>, <<INT, 0>>, <<IRET>>, <<HLT>>,
     <<255>>, <<INC, 0, RET>>, <<ST, 7, 0, RET>>, <<SUB, 0, 0>>}

\* the bytes at addresses 254 and 255 of an image
HighBlocks == {<<0, 0>>, <<255, 1>>}

\* load(): the bytes of the program file are stored from address 0 in file
\* order; cells the file does not reach keep the 0 of __init__
Image(code, high) ==
    [a \in 0..(RamSize - 1) |->
        IF a < Len(code) THEN code[a + 1]
        ELSE IF a >= RamSize - 2 THEN high[a - (RamSize - 3)]
        ELSE 0]

Program(x, y, i1, i2) == <<LDI, 0, x>> \o <<LDI, 1, y>> \o i1 \o i2 \o <<HLT>>

\* __init__: registers 0 except the stack pointer, pc and flags 0
InitReg == [r \in 0..(NumRegs - 1) |-> IF r = SP THEN SPInit ELSE 0]

\* no instruction executed yet
NoHist == [op |-> -1, prevop |-> -1, a |-> 0, b |-> 0, pc |-> 0, reg |-> InitReg, fl |-> 0]

\* no CALL executed yet
NoCall == [active |-> FALSE, p |-> 0, sp0 |-> SPInit, sp1 |-> SPInit, intact |-> FALSE]

\* the image of the program LDI R0,8; LDI R1,9; ADD R0,R1; PRN R0; HLT
SumImage == Image(Program(8, 9, <<ADD, 0, 1>>, <<PRN, 0>>), <<0, 0>>)

Init ==
    /\ \/ \E x \in Vals, y \in Vals, i1 \in Setup, i2 \in Pool, high \in HighBlocks :
             ram = Image(Program(x, y, i1, i2), high)
       \/ ram = SumImage
    /\ reg = InitReg
    /\ pc = 0
    /\ fl = 0
    /\ status = "running"
    /\ exitcode = NoExit
    /\ out = <<>>
    /\ floatreg = {}
    /\ acc = {}
    /\ hist = NoHist
    /\ lastcmp = <<>>
    /\ call = NoCall
    /\ steps = 0

(* ------------------------------------------------------------------ *)
(* Handlers: each returns the machine as the handler leaves it         *)
(* ------------------------------------------------------------------ *)
\* the machine before the handler runs; acc collects the handler's raw memory indices
Cur ==
    [reg |-> reg, ram |-> ram, pc |-> pc, fl |-> fl, out |-> out,
     status |-> "running", floatreg |-> floatreg, acc |-> {}, lastcmp |-> lastcmp]

\* an exception (or sys.exit) leaves the handler with the machine as it is at that point
Raise(m, exc) == [m EXCEPT !.status = exc]

R(i) == Idx(i, NumRegs)
RegOK(i) == IdxOK(i, NumRegs)
M(i) == Idx(i, RamSize)
RamOK(i) == IdxOK(i, RamSize)


\* def HLT(self): sys.exit(0)
CPU_HLT == Raise(Cur, "halted")

\* def LDI(self, operand_a, operand_b)
CPU_LDI(operand_a, operand_b) ==
    IF ~RegOK(operand_a) THEN Raise(Cur, "IndexError")
    ELSE [Cur EXCEPT !.reg[R(operand_a)] = operand_b]

\* variant: the operand itself is printed, not the register it names
CPU_PRN_PrintsOperand(operand_a) ==
    IF ~RegOK(operand_a) THEN Raise(Cur, "IndexError")
    ELSE [Cur EXCEPT !.out = Append(out, [kind |-> "PRN", val |-> operand_a])]

\* def PRN(self, operand_a): print(self.reg[operand_a])
CPU_PRN(operand_a) ==
    IF ~RegOK(operand_a) THEN Raise(Cur, "IndexError")
    ELSE [Cur EXCEPT !.out = Append(out, [kind |-> "PRN", val |-> reg[R(operand_a)]])]

\* def PRA(self, reg_a): print(chr(self.reg[reg_a]))
CPU_PRA(reg_a) ==
    IF ~RegOK(reg_a) THEN Raise(Cur, "IndexError")
    ELSE IF ~ChrOK(reg[R(reg_a)]) THEN Raise(Cur, "ValueError")
    ELSE [Cur EXCEPT !.out = Append(out, [kind |-> "PRA", val |-> reg[R(reg_a)]])]

\* variant: the value is stored at the old stack pointer, then the pointer is decremented
CPU_PUSH_StoreThenDecrement(reg_a) ==
    LET sp == reg[SP]
    IN  IF ~RegOK(reg_a) THEN Raise(Cur, "IndexError")
        ELSE IF ~RamOK(sp) THEN Raise([Cur EXCEPT !.acc = {sp}], "IndexError")
        ELSE [Cur EXCEPT !.ram[M(sp)] = reg[R(reg_a)], !.reg[SP] = sp - 1, !.acc = {sp}]

\* def PUSH(self, reg_a): the stack pointer is decremented before the register is read
CPU_PUSH(reg_a) ==
    LET sp == reg[SP] - 1
        m1 == [Cur EXCEPT !.reg[SP] = sp]
    IN  IF ~RegOK(reg_a) THEN Raise(m1, "IndexError")
        ELSE IF ~RamOK(sp) THEN Raise([m1 EXCEPT !.acc = {sp}], "IndexError")
        ELSE [m1 EXCEPT !.ram[M(sp)] = m1.reg[R(reg_a)], !.acc = {sp}]

\* def POP(self, reg_a): the register is written before the stack pointer is incremented
CPU_POP(reg_a) ==
    LET sp == reg[SP]
    IN  IF ~RamOK(sp) THEN Raise([Cur EXCEPT !.acc = {sp}], "IndexError")
        ELSE IF ~RegOK(reg_a) THEN Raise([Cur EXCEPT !.acc = {sp}], "IndexError")
        ELSE LET m1 == [Cur EXCEPT !.reg[R(reg_a)] = ram[M(sp)], !.acc = {sp}]
             IN  [m1 EXCEPT !.reg[SP] = m1.reg[SP] + 1]

\* variant: the pushed return address is pc + 1, the address of the operand
CPU_CALL_PushesOperandAddress(reg_a) ==
    LET ret_addr == pc + 1
        sp == reg[SP] - 1
        m1 == [Cur EXCEPT !.reg[SP] = sp, !.acc = {sp}]
    IN  IF ~RamOK(sp) THEN Raise(m1, "IndexError")
        ELSE LET m2 == [m1 EXCEPT !.ram[M(sp)] = ret_addr]
             IN  IF ~RegOK(reg_a) THEN Raise(m2, "IndexError")
                 ELSE [m2 EXCEPT !.pc = m2.reg[R(reg_a)]]

\* def CALL(self, reg_a)
CPU_CALL(reg_a) ==
    LET ret_addr == pc + 2
        sp == reg[SP] - 1
        m1 == [Cur EXCEPT !.reg[SP] = sp, !.acc = {sp}]
    IN  IF ~RamOK(sp) THEN Raise(m1, "IndexError")
        ELSE LET m2 == [m1 EXCEPT !.ram[M(sp)] = ret_addr]
             IN  IF ~RegOK(reg_a) THEN Raise(m2, "IndexError")
                 ELSE [m2 EXCEPT !.pc = m2.reg[R(reg_a)]]

\* def RET(self)
CPU_RET ==
    LET sp == reg[SP]
    IN  IF ~RamOK(sp) THEN Raise([Cur EXCEPT !.acc = {sp}], "IndexError")
        ELSE [Cur EXCEPT !.pc = ram[M(sp)], !.reg[SP] = sp + 1, !.acc = {sp}]

\* def ST(self, reg_a, reg_b): self.ram[self.reg[reg_a]] = self.reg[reg_b]
CPU_ST(reg_a, reg_b) ==
    IF ~RegOK(reg_b) \/ ~RegOK(reg_a) THEN Raise(Cur, "IndexError")
    ELSE LET addr == reg[R(reg_a)]
         IN  IF ~RamOK(addr) THEN Raise([Cur EXCEPT !.acc = {addr}], "IndexError")
             ELSE [Cur EXCEPT !.ram[M(addr)] = reg[R(reg_b)], !.acc = {addr}]

\* def LD(self, reg_a, reg_b): self.reg[reg_a] = self.ram[self.reg[reg_b]]
CPU_LD(reg_a, reg_b) ==
    IF ~RegOK(reg_b) THEN Raise(Cur, "IndexError")
    ELSE LET addr == reg[R(reg_b)]
         IN  IF ~RamOK(addr) THEN Raise([Cur EXCEPT !.acc = {addr}], "IndexError")
             ELSE IF ~RegOK(reg_a) THEN Raise([Cur EXCEPT !.acc = {addr}], "IndexError")
             ELSE [Cur EXCEPT !.reg[R(reg_a)] = ram[M(addr)], !.acc = {addr}]

\* def JMP(self, reg_a): self.pc = self.reg[reg_a]
CPU_JMP(reg_a) ==
    IF ~RegOK(reg_a) THEN Raise(Cur, "IndexError")
    ELSE [Cur EXCEPT !.pc = reg[R(reg_a)]]

\* the shape shared by the six conditional jumps: if self.fl & mask != 0 (== 0 for JNE)
CondJump(taken, reg_a) == IF taken THEN CPU_JMP(reg_a) ELSE [Cur EXCEPT !.pc = pc + 2]

CPU_JEQ(reg_a) == CondJump(And8(fl, 1) # 0, reg_a)
\* variant: JGE tests the greater-than bit only
CPU_JGE_GreaterOnly(reg_a) == CondJump(And8(fl, 2) # 0, reg_a)
CPU_JGE(reg_a) == CondJump(And8(fl, 3) # 0, reg_a)
CPU_JGT(reg_a) == CondJump(And8(fl, 2) # 0, reg_a)
CPU_JLE(reg_a) == CondJump(And8(fl, 5) # 0, reg_a)
CPU_JLT(reg_a) == CondJump(And8(fl, 4) # 0, reg_a)
CPU_JNE(reg_a) == CondJump(And8(fl, 1) = 0, reg_a)

\* def NOP(self), def INT(self), def IRET(self): pass
CPU_NOP == Cur
CPU_INT == Cur
CPU_IRET == Cur


(* ------------------------------------------------------------------ *)
(* def alu(self, op, reg_a, reg_b)                                     *)
(* ------------------------------------------------------------------ *)
\* the operations that read self.reg[reg_b]
ReadsRegB == {ADD, SUB, MUL, DIV, AND, CMP, MOD, OR, SHL, SHR, XOR}

AluOps == ReadsRegB \cup {DEC, INC, NOT, ADDI}

\* variant: the greater-than and less-than bits exchanged
CmpFlags_Swapped(x, y) == IF x = y THEN 1 ELSE IF x > y THEN 4 ELSE 2

\* the three branches of CMP
CmpFlags(x, y) == IF x = y THEN 1 ELSE IF x > y THEN 2 ELSE 4

\* variant: SUB subtracts the first operand from the second
AluValue_SubReversed(op, x, y, reg_b) ==
    CASE op = ADD -> x + y
      [] op = SUB -> y - x
      [] op = MUL -> x * y
      [] op = AND -> And8(x, y)
      [] op = DEC -> x - 1
      [] op = INC -> x + 1
      [] op = NOT -> Not8(x)
      [] op = OR -> Or8(x, y)
      [] op = SHL -> Shl8(x, y)
      [] op = SHR -> Shr8(x, y)
      [] op = XOR -> Xor8(x, y)
      [] op = ADDI -> x + reg_b

\* the value assigned to self.reg[reg_a] before the mask, reduced to the bits
\* the mask keeps; x = reg[reg_a], y = reg[reg_b], reg_b the raw second operand
AluValue(op, x, y, reg_b) ==
    CASE op = ADD -> x + y
      [] op = SUB -> x - y
      [] op = MUL -> x * y
      [] op = AND -> And8(x, y)
      [] op = DEC -> x - 1
      [] op = INC -> x + 1
      [] op = NOT -> Not8(x)
      [] op = OR -> Or8(x, y)
      [] op = SHL -> Shl8(x, y)
      [] op = SHR -> Shr8(x, y)
      [] op = XOR -> Xor8(x, y)
      [] op = ADDI -> x + reg_b

\* the quotient of Python's true division is a float; the model keeps its
\* floor in the register and marks the register in floatreg
FloorDiv(x, y) == IF y > 0 THEN x \div y ELSE (-x) \div (-y)

\* print("ERROR: cannot divide by zero")
DivZeroMsg == [kind |-> "ERROR: cannot divide by zero", val |-> 0]

\* variant: the destination is assigned before the divisor is tested
AluDivMod_ClobberOnZero(op, reg_a, reg_b) ==
    IF ~RegOK(reg_b) \/ ~RegOK(reg_a) THEN Raise(Cur, "IndexError")
    ELSE LET a == R(reg_a)
             x == reg[a]
             y == reg[R(reg_b)]
         IN  IF y = 0 THEN Raise([Cur EXCEPT !.reg[a] = 0, !.out = Append(out, DivZeroMsg)],
                                 "DivideByZero")
             ELSE IF op = DIV
                  THEN Raise([Cur EXCEPT !.reg[a] = FloorDiv(x, y),
                                         !.floatreg = floatreg \cup {a}], "TypeError")
             ELSE [Cur EXCEPT !.reg[a] = Mask8(PyMod(x, y))]

\* the DIV and MOD branches: self.reg[reg_b] is tested first and a zero divisor
\* exits before self.reg[reg_a] is touched; DIV then assigns the float quotient
\* and the mask raises TypeError
AluDivMod(op, reg_a, reg_b) ==
    IF ~RegOK(reg_b) THEN Raise(Cur, "IndexError")
    ELSE IF reg[R(reg_b)] = 0
         THEN Raise([Cur EXCEPT !.out = Append(out, DivZeroMsg)], "DivideByZero")
    ELSE IF ~RegOK(reg_a) THEN Raise(Cur, "IndexError")
    ELSE LET a == R(reg_a)
             x == reg[a]
             y == reg[R(reg_b)]
         IN  IF op = DIV
             THEN Raise([Cur EXCEPT !.reg[a] = FloorDiv(x, y),
                                    !.floatreg = floatreg \cup {a}], "TypeError")
             ELSE [Cur EXCEPT !.reg[a] = Mask8(PyMod(x, y))]

\* the CMP branch: the flags are assigned, then the mask is applied to reg[reg_a]
AluCMP(a, x, y) ==
    [Cur EXCEPT !.fl = CmpFlags(x, y), !.reg[a] = Mask8(x), !.lastcmp = <<x, y>>]

\* variant: SUB sets the flags from its operands as CMP does
alu_SubSetsFlags(op, reg_a, reg_b) ==
    IF op \notin AluOps THEN Raise(Cur, "Exception")
    ELSE IF op \in {DIV, MOD} THEN AluDivMod(op, reg_a, reg_b)
    ELSE IF ~RegOK(reg_a) \/ (op \in ReadsRegB /\ ~RegOK(reg_b)) THEN Raise(Cur, "IndexError")
    ELSE LET a == R(reg_a)
             x == reg[a]
             y == IF op \in ReadsRegB THEN reg[R(reg_b)] ELSE 0
         IN  IF op \in {SHL, SHR} /\ y < 0 THEN Raise(Cur, "ValueError")
             ELSE IF op = CMP THEN AluCMP(a, x, y)
             ELSE IF op = SUB
                  THEN [Cur EXCEPT !.reg[a] = Mask8(x - y), !.fl = CmpFlags(x, y)]
             ELSE [Cur EXCEPT !.reg[a] = Mask8(AluValue(op, x, y, reg_b))]

\* def alu(self, op, reg_a, reg_b)
alu(op, reg_a, reg_b) ==
    IF op \notin AluOps THEN Raise(Cur, "Exception")
    ELSE IF op \in {DIV, MOD} THEN AluDivMod(op, reg_a, reg_b)
    ELSE IF ~RegOK(reg_a) \/ (op \in ReadsRegB /\ ~RegOK(reg_b)) THEN Raise(Cur, "IndexError")
    ELSE LET a == R(reg_a)
             x == reg[a]
             y == IF op \in ReadsRegB THEN reg[R(reg_b)] ELSE 0
         IN  IF op \in {SHL, SHR} /\ y < 0 THEN Raise(Cur, "ValueError")
             ELSE IF op = CMP THEN AluCMP(a, x, y)
             ELSE [Cur EXCEPT !.reg[a] = Mask8(AluValue(op, x, y, reg_b))]

(* ------------------------------------------------------------------ *)
(* def run(self): one iteration of the loop per action                 *)
(* ------------------------------------------------------------------ *)
ir == pc
\* operands are read for every instruction, before the opcode is looked up
FetchOK == RamOK(ir) /\ RamOK(ir + 1) /\ RamOK(ir + 2)
\* the opcode read by ram_read(ir); no opcode when that read raises
op == IF RamOK(ir) THEN ram[M(ir)] ELSE -1
operand_a == ram[M(ir + 1)]
operand_b == ram[M(ir + 2)]
\* the raw indices the three ram_read calls use, up to the first that raises
FetchAcc ==
    {ir} \cup (IF RamOK(ir) THEN {ir + 1} ELSE {})
         \cup (IF RamOK(ir) /\ RamOK(ir + 1) THEN {ir + 2} ELSE {})

Running == status = "running" /\ steps < MaxSteps

\* the number of arguments each non-ALU handler is defined with
Params(o) ==
    IF o \in {LDI, ST, LD} THEN 2
    ELSE IF o \in {PRN, PRA, PUSH, POP, CALL, JMP, JEQ, JGE, JGT, JLE, JLT, JNE} THEN 1
    ELSE 0

\* the call self.branchtable[op](...) with as many operands as op >> 6 says
Dispatch(o, m) ==
    IF ~IsAlu(o) /\ NumOperands(o) # Params(o) THEN Raise(Cur, "TypeError") ELSE m

\* sys.exit(0) for HLT, sys.exit(1) for the reported errors, and the
\* interpreter's exit status 1 for an uncaught exception
ExitOf(st) == IF st = "running" THEN NoExit ELSE IF st = "halted" THEN 0 ELSE 1

\* variant: the pc is advanced whatever bit 4 of the opcode says
NextPC_AlwaysAdvance(o, m) == m.pc + NumOperands(o) + 1

\* if op & 0b00010000 == 0: self.pc += (op >> 6) + 1
NextPC(o, m) == IF ~SetsPC(o) THEN m.pc + NumOperands(o) + 1 ELSE m.pc

\* the most recent CALL that returned to the loop: its address p, the stack
\* pointer before and after it, and whether the cell it wrote still holds the
\* value it wrote
CallRecord(o, m) ==
    IF o = CALL /\ m.status = "running"
    THEN [active |-> TRUE, p |-> pc, sp0 |-> reg[SP], sp1 |-> m.reg[SP], intact |-> TRUE]
    ELSE IF call.active
    THEN [call EXCEPT !.intact = @ /\ m.ram[M(call.sp1)] = ram[M(call.sp1)]]
    ELSE call

\* the state the iteration leaves: the handler's machine, the pc update when the
\* handler returned, and the record of the instruction just executed
Finish(o, m) ==
    /\ reg' = m.reg
    /\ ram' = m.ram
    /\ fl' = m.fl
    /\ out' = m.out
    /\ floatreg' = m.floatreg
    /\ lastcmp' = m.lastcmp
    /\ status' = m.status
    /\ exitcode' = ExitOf(m.status)
    /\ pc' = IF m.status = "running" THEN NextPC(o, m) ELSE m.pc
    /\ acc' = FetchAcc \cup m.acc
    /\ hist' = [op |-> o, prevop |-> hist.op, a |-> operand_a, b |-> operand_b,
                 pc |-> pc, reg |-> reg, fl |-> fl]
    /\ call' = CallRecord(o, m)
    /\ steps' = steps + 1

Execute(o, m) == op = o /\ Running /\ FetchOK /\ Finish(o, Dispatch(o, m))

\* ram_read(ir), ram_read(ir + 1) or ram_read(ir + 2) raises IndexError
FetchFault ==
    /\ Running
    /\ ~FetchOK
    /\ status' = "IndexError"
    /\ exitcode' = 1
    /\ acc' = FetchAcc
    /\ steps' = steps + 1
    /\ UNCHANGED <<ram, reg, pc, fl, out, floatreg, hist, lastcmp, call>>

\* print(f"Command not found: {bin(op)}"); sys.exit(1)
CommandNotFound ==
    /\ Running
    /\ FetchOK
    /\ op \notin branchtable
    /\ status' = "InvalidOpcode"
    /\ exitcode' = 1
    /\ out' = Append(out, [kind |-> "Command not found", val |-> op])
    /\ acc' = FetchAcc
    /\ steps' = steps + 1
    /\ UNCHANGED <<ram, reg, pc, fl, floatreg, hist, lastcmp, call>>

RunHLT == Execute(HLT, CPU_HLT)
RunLDI == Execute(LDI, CPU_LDI(operand_a, operand_b))
RunPRN == Execute(PRN, CPU_PRN(operand_a))
RunALU == op \in branchtable /\ IsAlu(op) /\ Execute(op, alu(op, operand_a, operand_b))
RunPUSH == Execute(PUSH, CPU_PUSH(operand_a))
RunPOP == Execute(POP, CPU_POP(operand_a))
RunCALL == Execute(CALL, CPU_CALL(operand_a))
RunRET == Execute(RET, CPU_RET)
RunST == Execute(ST, CPU_ST(operand_a, operand_b))
RunJMP == Execute(JMP, CPU_JMP(operand_a))
RunJEQ == Execute(JEQ, CPU_JEQ(operand_a))
RunJGE == Execute(JGE, CPU_JGE(operand_a))
RunJGT == Execute(JGT, CPU_JGT(operand_a))
RunJLE == Execute(JLE, CPU_JLE(operand_a))
RunJLT == Execute(JLT, CPU_JLT(operand_a))
RunJNE == Execute(JNE, CPU_JNE(operand_a))
RunLD == Execute(LD, CPU_LD(operand_a, operand_b))
RunNOP == Execute(NOP, CPU_NOP)
RunPRA == Execute(PRA, CPU_PRA(operand_a))
RunINT == Execute(INT, CPU_INT)
RunIRET == Execute(IRET, CPU_IRET)

Next ==
    \/ FetchFault
    \/ CommandNotFound
    \/ RunHLT
    \/ RunLDI
    \/ RunPRN
    \/ RunALU
    \/ RunPUSH
    \/ RunPOP
    \/ RunCALL
    \/ RunRET
    \/ RunST
    \/ RunJMP
    \/ RunJEQ
    \/ RunJGE
    \/ RunJGT
    \/ RunJLE
    \/ RunJLT
    \/ RunJNE
    \/ RunLD
    \/ RunNOP
    \/ RunPRA
    \/ RunINT
    \/ RunIRET

Spec == Init /\ [][Next]_vars

\* run() is a `while True` loop: as long as an iteration is possible, one is taken
FairSpec == Spec /\ WF_vars(Next)

TypeOK ==
    /\ DOMAIN ram = 0..(RamSize - 1)
    /\ DOMAIN reg = 0..(NumRegs - 1)
    /\ status \in {"running", "halted", "InvalidOpcode", "DivideByZero",
                   "IndexError", "TypeError", "ValueError", "Exception"}


(* ------------------------------------------------------------------ *)
(* Properties                                                          *)
(* ------------------------------------------------------------------ *)
Byte == 0..255
ValidReg == 0..(NumRegs - 1)
CondJumps == {JEQ, JNE, JGT, JGE, JLT, JLE}
\* the instruction at pc is fetched and dispatched in the next iteration
Fetched == status = "running" /\ FetchOK

\* C1: every way the run loop stops is HLT with exit code 0 or a reported
\* InvalidOpcode or DivideByZero error with exit code 1.
C1_StopsOnlyByHaltOrReportedError ==
    status # "running" =>
        \/ status = "halted" /\ exitcode = 0
        \/ status \in {"InvalidOpcode", "DivideByZero"} /\ exitcode = 1

\* C2: after the handler of a dispatch-table opcode has run, pc is the old pc
\* plus (opcode >> 6) + 1 when bit 4 of the opcode is clear; when bit 4 is set
\* the run loop adds nothing and pc is what the handler assigned: the jump
\* target, the return address, the old pc + 2 of a conditional jump not taken,
\* or the old pc where the handler assigns none.
C2_PCAfterHandler ==
    [][(Fetched /\ op \in branchtable /\ status' = "running") =>
          IF (op \div 16) % 2 = 0 THEN pc' = pc + (op \div 64) + 1
          ELSE IF op = JMP THEN pc' = reg[R(operand_a)]
          ELSE IF op = CALL
               THEN pc' = IF R(operand_a) = SP THEN reg[SP] - 1 ELSE reg[R(operand_a)]
          ELSE IF op = RET THEN pc' = ram[M(reg[SP])]
          ELSE IF op \in CondJumps
               THEN pc' = pc + 2 \/ (RegOK(operand_a) /\ pc' = reg[R(operand_a)])
          ELSE pc' = pc]_vars

\* C2 witness: a conditional jump was taken to a target other than its address + 2
C2_Witness ==
    /\ status = "running"
    /\ hist.op \in CondJumps
    /\ pc = hist.reg[2]
    /\ pc # hist.pc + 2

\* C3: every memory access uses an index within 0..255; an index outside that
\* range ends the run with one of the reported fatal errors and never reaches
\* a memory cell.
C3_AccessInRangeOrFatal ==
    \A i \in acc : (i < 0 \/ i >= RamSize) => status \in {"InvalidOpcode", "DivideByZero"}

\* C4: for every pc in 0..255 whose byte is not a defined opcode, the run
\* reports the byte and stops with exit code 1 (InvalidOpcode), leaving
\* registers, memory, flags and pc as they were.
C4_InvalidOpcodeAtAnyPC ==
    [][(status = "running" /\ pc \in 0..(RamSize - 1) /\ ram[pc] \notin branchtable) =>
          /\ status' = "InvalidOpcode"
          /\ exitcode' = 1
          /\ out' = Append(out, [kind |-> "Command not found", val |-> ram[pc]])
          /\ UNCHANGED <<reg, ram, fl, pc>>]_vars

\* C5: DIV or MOD ra, rb with reg[rb] = 0 (ra = rb included) reports
\* DivideByZero and stops with exit code 1, and registers, memory and flags
\* are what they were before the instruction.
C5_DivideByZeroLeavesState ==
    [][(Fetched /\ op \in {DIV, MOD} /\ operand_a \in ValidReg /\ operand_b \in ValidReg
          /\ reg[operand_b] = 0) =>
          /\ status' = "DivideByZero"
          /\ exitcode' = 1
          /\ out' = Append(out, [kind |-> "ERROR: cannot divide by zero", val |-> 0])
          /\ UNCHANGED <<reg, ram, fl, floatreg>>]_vars

\* C5 witness: a run stopped by DIV with a zero divisor and a non-zero dividend
C5_Witness ==
    /\ status = "DivideByZero"
    /\ hist.op = DIV
    /\ hist.a # hist.b
    /\ hist.reg[hist.a] # 0
    /\ reg = hist.reg

\* C6: DIV ra, rb on byte values x, y with y # 0 completes without error,
\* leaves reg[ra] = x div y, an integer in 0..255, and the run goes on with
\* the next instruction.
C6_DivFloorQuotient ==
    [][(Fetched /\ op = DIV /\ operand_a \in ValidReg /\ operand_b \in ValidReg
          /\ reg[operand_a] \in Byte /\ reg[operand_b] \in Byte /\ reg[operand_b] # 0) =>
          /\ status' = "running"
          /\ operand_a \notin floatreg'
          /\ reg'[operand_a] = reg[operand_a] \div reg[operand_b]
          /\ reg'[operand_a] \in Byte
          /\ pc' = pc + 3]_vars

\* C7: every ALU operation on byte-valued operand registers (divisor non-zero
\* for DIV and MOD) leaves an integer in 0..255 in the destination register
\* and reports no error.
C7_AluResultIsByte ==
    [][(Fetched /\ op \in AluOps /\ operand_a \in ValidReg /\ reg[operand_a] \in Byte
          /\ (op \in ReadsRegB => operand_b \in ValidReg /\ reg[operand_b] \in Byte)
          /\ (op \in {DIV, MOD} => reg[operand_b] # 0)) =>
          /\ status' = "running"
          /\ operand_a \notin floatreg'
          /\ reg'[operand_a] \in Byte]_vars

\* C8: after CMP ra, rb on byte values x, y the flags register has exactly one
\* of bits 0..2 set and no other bit: bit 0 iff x = y, bit 1 iff x > y, bit 2
\* iff x < y, whatever the flags were before; no register or memory cell changes.
C8_CmpSetsExactlyOneFlag ==
    [][(Fetched /\ op = CMP /\ operand_a \in ValidReg /\ operand_b \in ValidReg
          /\ reg[operand_a] \in Byte /\ reg[operand_b] \in Byte) =>
          LET x == reg[operand_a]
              y == reg[operand_b]
          IN  /\ status' = "running"
              /\ fl' \in {1, 2, 4}
              /\ (fl' = 1) <=> (x = y)
              /\ (fl' = 2) <=> (x > y)
              /\ (fl' = 4) <=> (x < y)
              /\ UNCHANGED <<reg, ram>>]_vars

\* C8 witness: a CMP executed with a flag already set and changed the flags
C8_Witness ==
    /\ status = "running"
    /\ hist.op = CMP
    /\ hist.fl # 0
    /\ fl # hist.fl
    /\ fl \in {1, 2, 4}

\* C9: after a CMP on byte values x, y and no later CMP, a conditional jump
\* J rt that is executed sets pc to reg[rt] exactly when its relation holds
\* between x and y and to its own address + 2 otherwise; registers, memory
\* and flags are unchanged.
C9_CondJumpFollowsCompare ==
    [][(Fetched /\ op \in CondJumps /\ operand_a \in ValidReg /\ lastcmp # <<>>
          /\ lastcmp[1] \in Byte /\ lastcmp[2] \in Byte) =>
          LET x == lastcmp[1]
              y == lastcmp[2]
              rel == CASE op = JEQ -> x = y
                       [] op = JNE -> x # y
                       [] op = JGT -> x > y
                       [] op = JGE -> x >= y
                       [] op = JLT -> x < y
                       [] op = JLE -> x <= y
          IN  /\ status' = "running"
              /\ rel => pc' = reg[operand_a]
              /\ ~rel => pc' = pc + 2
              /\ UNCHANGED <<reg, ram, fl>>]_vars

\* C9 witness: JGE was taken after a CMP of two equal values
C9_Witness ==
    /\ status = "running"
    /\ hist.op = JGE
    /\ lastcmp # <<>>
    /\ lastcmp[1] = lastcmp[2]
    /\ pc = hist.reg[hist.a]
    /\ pc # hist.pc + 2

\* the POP step that follows a completed PUSH, for register indices up to top
PushThenPop(top) ==
    (Fetched /\ hist.op = PUSH /\ hist.a \in 0..top /\ op = POP /\ operand_a \in 0..top) =>
        /\ status' = "running"
        /\ reg'[operand_a] = hist.reg[hist.a]
        /\ reg'[SP] = hist.reg[SP]

\* C10 as stated: for all r, r' in 0..7 and every starting SP, PUSH r
\* immediately followed by POP r' leaves reg[r'] equal to the value reg[r] had
\* before the PUSH and SP equal to its value before the PUSH.
C10_PushPopAllRegisters == [][PushThenPop(7)]_vars

\* C10 amended: for all r, r' in 0..6 (neither is the stack pointer R7) and
\* every starting SP, a completed PUSH r immediately followed by an executed
\* POP r' leaves reg[r'] equal to the value reg[r] had before the PUSH and SP
\* equal to its value before the PUSH.
C10_PushPopGeneralRegisters == [][PushThenPop(6)]_vars

\* C10 witness: PUSH from SP = 0 stored through index -1 and the POP that
\* followed restored SP to 0
C10_Witness ==
    /\ status = "running"
    /\ hist.op = POP
    /\ hist.prevop = PUSH
    /\ hist.a \in 0..6
    /\ hist.reg[SP] = -1
    /\ reg[SP] = 0

\* C11: a RET that is dispatched with the stack pointer where the most recent
\* CALL (at address p) left it, and with the cell that CALL wrote still holding
\* what it wrote, returns to the loop with pc = p + 2 and the stack pointer the
\* CALL found
C11_RetReturnsAfterCall ==
    [][(Fetched /\ steps < MaxSteps /\ op = RET
          /\ call.active /\ call.intact /\ reg[SP] = call.sp1)
        => (status' = "running" /\ pc' = call.p + 2 /\ reg'[SP] = call.sp0)]_vars

\* a called routine ran an instruction of its own and then returned to p + 2
C11_Witness ==
    /\ status = "running"
    /\ hist.op = RET
    /\ hist.prevop = INC
    /\ call.active /\ call.intact
    /\ hist.reg[SP] = call.sp1
    /\ pc = call.p + 2
    /\ reg[SP] = call.sp0

\* C12: INT and IRET are accepted and inert: a dispatched INT or IRET returns to
\* the loop without any failure and leaves registers, memory and flags as they were
C12_IntIretInert ==
    [][(Fetched /\ steps < MaxSteps /\ op \in {INT, IRET})
        => (status' = "running" /\ reg' = reg /\ ram' = ram /\ fl' = fl)]_vars

\* the instructions whose handlers address memory themselves
MemoryOps == {PUSH, POP, CALL, RET, ST, LD}

\* C13: an iteration reads the opcode cell and only as many operand cells as
\* the opcode's operand count, so an instruction whose handler addresses no
\* memory touches pc..pc+count only, and HLT halts with exit code 0 wherever
\* it lies, the last two cells included
C13_ReadsOnlyOperandCount ==
    [][(Running /\ RamOK(pc) /\ op \in branchtable \ MemoryOps)
        => /\ acc' \subseteq pc..(pc + NumOperands(op))
           /\ op = HLT => (status' = "halted" /\ exitcode' = 0)]_vars

\* C14: the flags are 0 or exactly one of 0b001, 0b010, 0b100 in every
\* reachable state, and no iteration other than a dispatched CMP changes them
C14_FlagsWrittenOnlyByCmp ==
    /\ [](fl \in {0, 1, 2, 4})
    /\ [][(~Fetched \/ op # CMP) => fl' = fl]_vars

\* an instruction other than CMP ran with a flag set and the flag is still set
C14_Witness ==
    /\ hist.op \in branchtable \ {CMP}
    /\ hist.fl = 4
    /\ fl = 4

\* a dispatched SUB ra, rb that directly follows a completed ADD ra, rb whose
\* operands were byte values in valid registers; distinct tells whether ra and
\* rb must differ
AddThenSub(distinct) ==
    /\ Fetched /\ steps < MaxSteps
    /\ hist.op = ADD /\ op = SUB
    /\ operand_a = hist.a /\ operand_b = hist.b
    /\ operand_a \in ValidReg /\ operand_b \in ValidReg
    /\ hist.reg[operand_a] \in Byte /\ hist.reg[operand_b] \in Byte
    /\ distinct => operand_a # operand_b

\* C15 as stated: for every pair of register operands ra, rb, ADD ra, rb
\* followed by SUB ra, rb leaves reg[ra] equal to the value it held before
C15_AddSubAnyPair ==
    [][AddThenSub(FALSE)
        => (status' = "running" /\ reg'[operand_a] = hist.reg[operand_a])]_vars

\* C15 amended: for two distinct registers ra, rb, ADD ra, rb followed by
\* SUB ra, rb leaves reg[ra] equal to the value it held before the ADD
C15_AddSubDistinctRegisters ==
    [][AddThenSub(TRUE)
        => (status' = "running" /\ reg'[operand_a] = hist.reg[operand_a])]_vars

\* R0 + R1 wrapped past 255 and the SUB brought R0 back
C15_Witness ==
    /\ status = "running"
    /\ hist.op = SUB /\ hist.prevop = ADD
    /\ hist.a = 0 /\ hist.b = 1
    /\ reg[0] = 255 /\ reg[1] = 5 /\ hist.reg[0] = 4

\* C16: for bytes a = reg[ra], b = reg[rb] in two distinct registers with
\* b # 0 and a * b <= 255, MUL ra, rb followed by DIV ra, rb leaves reg[ra]
\* equal to a
C16_MulDivRoundTrip ==
    [][(/\ Fetched /\ steps < MaxSteps
        /\ hist.op = MUL /\ op = DIV
        /\ operand_a = hist.a /\ operand_b = hist.b
        /\ operand_a \in ValidReg /\ operand_b \in ValidReg
        /\ operand_a # operand_b
        /\ hist.reg[operand_a] \in Byte /\ hist.reg[operand_b] \in Byte
        /\ hist.reg[operand_b] # 0
        /\ hist.reg[operand_a] * hist.reg[operand_b] <= 255)
        => (/\ status' = "running"
            /\ reg'[operand_a] = hist.reg[operand_a]
            /\ operand_a \notin floatreg')]_vars

\* C17: the run of LDI R0,8; LDI R1,9; ADD R0,R1; PRN R0; HLT from a fresh
\* machine prints nothing but the decimal 17, once, stops only through HLT with
\* exit code 0 and the 17 printed, and does stop
C17_SumProgramPrints17 ==
    /\ [](ram = SumImage => out \in {<<>>, <<[kind |-> "PRN", val |-> 17]>>})
    /\ [](ram = SumImage /\ status # "running"
            => /\ status = "halted"
               /\ exitcode = 0
               /\ out = <<[kind |-> "PRN", val |-> 17]>>)
    /\ (ram = SumImage /\ steps = 0) ~> (status = "halted")

\* the program has run to its HLT
C17_Witness ==
    /\ ram = SumImage
    /\ status = "halted"
    /\ exitcode = 0
    /\ out = <<[kind |-> "PRN", val |-> 17]>>
    /\ pc = 11
    /\ steps = 5

\* C18: in every reachable state each of the eight registers, the stack
\* pointer R7 included, holds an integer in 0..255
C18_RegistersAreBytes ==
    \A r \in ValidReg : reg[r] \in Byte /\ r \notin floatreg

\* the positions of the 1 bits of a byte
BitsOf(v) == {k \in 0..7 : (v \div (2 ^ k)) % 2 = 1}

\* r is the mathematical result of the operation o on the bytes x and y (imm
\* for ADDI), reduced modulo 256
MathResult(o, r, x, y, imm) ==
    /\ r \in Byte
    /\ CASE o = ADD -> r = (x + y) % 256
         [] o = SUB -> r = (x - y) % 256
         [] o = MUL -> r = (x * y) % 256
         [] o = MOD -> r = x % y
         [] o = AND -> BitsOf(r) = BitsOf(x) \cap BitsOf(y)
         [] o = OR -> BitsOf(r) = BitsOf(x) \cup BitsOf(y)
         [] o = XOR -> BitsOf(r) = (BitsOf(x) \cup BitsOf(y)) \ (BitsOf(x) \cap BitsOf(y))
         [] o = SHL -> r = IF y >= 8 THEN 0 ELSE (x * (2 ^ y)) % 256
         [] o = SHR -> r = IF y >= 8 THEN 0 ELSE x \div (2 ^ y)
         [] o = NOT -> r = 255 - x
         [] o = INC -> r = (x + 1) % 256
         [] o = DEC -> r = (x - 1) % 256
         [] o = ADDI -> r = (x + imm) % 256

\* C19: ADD, SUB, MUL, MOD with a non-zero divisor, AND, OR, XOR, SHL, SHR on
\* two valid registers, NOT, INC, DEC on one, and ADDI with a literal, all on
\* byte values, leave in reg[ra] the mathematical result modulo 256 and change
\* no other register, no memory cell and not the flags
C19_AluResultAndFrame ==
    [][(/\ Fetched /\ steps < MaxSteps
        /\ op \in AluOps \ {DIV, CMP}
        /\ operand_a \in ValidReg /\ reg[operand_a] \in Byte
        /\ op \in ReadsRegB => (operand_b \in ValidReg /\ reg[operand_b] \in Byte)
        /\ op = MOD => reg[operand_b] # 0)
        => (/\ status' = "running"
            /\ MathResult(op, reg'[operand_a], reg[operand_a],
                          IF op \in ReadsRegB THEN reg[operand_b] ELSE 0, operand_b)
            /\ \A r \in ValidReg \ {operand_a} : reg'[r] = reg[r]
            /\ ram' = ram
            /\ fl' = fl)]_vars

\* an ADDI wrapped past 255 while a flag was set
C19_Witness ==
    /\ status = "running"
    /\ hist.op = ADDI /\ hist.a = 0 /\ hist.b = 200
    /\ hist.reg[0] = 255 /\ reg[0] = 199
    /\ hist.fl # 0 /\ fl = hist.fl

\* the recognized instructions that are not jumps
NonJumpOps == {LDI, LD, ST, PUSH, POP, PRN, PRA, NOP, INT, IRET} \cup AluOps

\* the register operands of the instruction at address a of mem are valid
\* register numbers
OperandsValid(mem, a) ==
    LET o == mem[a]
    IN  /\ (NumOperands(o) >= 1) => mem[a + 1] \in ValidReg
        /\ (o \in {LD, ST} \cup ReadsRegB) => mem[a + 2] \in ValidReg

\* mem holds, from address a on, non-jump instructions with valid register
\* operands, one after the other, up to a HLT
RECURSIVE StraightLine(_, _)
StraightLine(mem, a) ==
    IF a > RamSize - 3 THEN FALSE
    ELSE IF mem[a] = HLT THEN TRUE
    ELSE /\ mem[a] \in NonJumpOps
         /\ OperandsValid(mem, a)
         /\ StraightLine(mem, a + 1 + NumOperands(mem[a]))

\* C20: a program of recognized non-jump instructions with valid register
\* operands and no zero divisor, laid out from address 0 and ended by HLT, stops
\* only by reaching that HLT with exit code 0, and every such instruction
\* returns to the loop with pc moved forward by its own length
C20_StraightLineReachesHalt ==
    /\ [](status \notin {"running", "DivideByZero"} /\ StraightLine(ram, 0)
            => (status = "halted" /\ exitcode = 0))
    /\ [][(/\ Fetched /\ steps < MaxSteps
           /\ op \in NonJumpOps
           /\ OperandsValid(ram, M(pc))
           /\ op \in {DIV, MOD} => reg[operand_b] # 0
           /\ \A r \in ValidReg : reg[r] \in Byte)
           => (status' = "running" /\ pc' = pc + 1 + NumOperands(op))]_vars

====
